---------------------------- MODULE Spec2Model ----------------------------
(***************************************************************************)
(* PDF Data Redactor (src/redactor.py, src/redactor-tools.py).             *)
(*                                                                         *)
(* A Python string is a sequence of characters.  A character is a          *)
(* one-letter TLA+ string, except for two characters that have no ASCII    *)
(* spelling: "Idot" is U+0130 (capital I with dot above) and "cdot" is     *)
(* U+0307 (combining dot above); str.lower() maps U+0130 to the TWO        *)
(* characters "i" U+0307, the only lowercase mapping that changes a        *)
(* string's length.                                                        *)
(***************************************************************************)
EXTENDS Integers, Sequences, FiniteSets, TLC

SetMin(S) == CHOOSE x \in S : \A y \in S : x <= y

IntMin(a, b) == IF a <= b THEN a ELSE b

(***************************************************************************)
(* Python string primitives used by process_text.                          *)
(***************************************************************************)

\* str.lower() of one character.
LowerChar(c) ==
    CASE c = "A" -> <<"a">>
      [] c = "B" -> <<"b">>
      [] c = "H" -> <<"h">>
      [] c = "J" -> <<"j">>
      [] c = "D" -> <<"d">>
      [] c = "S" -> <<"s">>
      [] c = "Idot" -> <<"i", "cdot">>
      [] OTHER -> <<c>>

\* str.lower(): the characters' lowercase forms, concatenated.
RECURSIVE lower(_)
lower(s) == IF s = <<>> THEN <<>> ELSE LowerChar(Head(s)) \o lower(Tail(s))

\* s[i:j] for 0 <= i, 0 <= j (indices past the end are clamped).
Slice(s, i, j) == SubSeq(s, i + 1, IntMin(j, Len(s)))

\* A slice to the end that is lost.
SliceFromDropped(s, i) == <<>>

\* s[i:]
SliceFrom(s, i) == Slice(s, i, Len(s))

\* sub occurs in s at 0-based index p.
MatchAt(s, sub, p) ==
    /\ p >= 0
    /\ p + Len(sub) <= Len(s)
    /\ \A k \in 1..Len(sub) : s[p + k] = sub[k]

\* s.find(sub, start): lowest index >= start of an occurrence, or -1.
str_find(s, sub, start) ==
    LET found == {p \in start..(Len(s) - Len(sub)) : MatchAt(s, sub, p)}
    IN  IF found = {} THEN -1 ELSE SetMin(found)

\* The result of replacing the empty string: new before every character
\* and at the end.
RECURSIVE Interleave(_, _)
Interleave(s, new) ==
    IF s = <<>> THEN new ELSE new \o <<Head(s)>> \o Interleave(Tail(s), new)

RECURSIVE ReplaceFrom(_, _, _, _)
ReplaceFrom(s, old, new, p) ==
    IF p >= Len(s) THEN <<>>
    ELSE IF MatchAt(s, old, p)
         THEN new \o ReplaceFrom(s, old, new, p + Len(old))
         ELSE <<s[p + 1]>> \o ReplaceFrom(s, old, new, p + 1)

\* A replace that substitutes the first occurrence only.
str_replace_first(s, old, new) ==
    LET p == str_find(s, old, 0)
    IN  IF p = -1 THEN s
        ELSE Slice(s, 0, p) \o new \o SliceFrom(s, p + Len(old))

\* s.replace(old, new)
str_replace(s, old, new) ==
    IF old = <<>> THEN Interleave(s, new) ELSE ReplaceFrom(s, old, new, 0)

(***************************************************************************)
(* re.sub for the patterns of the model: a pattern is a string whose       *)
(* characters are literals, except "." (any character; the model has no    *)
(* newline) and "(" (opens a group: the model has no ")" so a pattern      *)
(* holding "(" does not compile).  The model's replacement strings hold    *)
(* no backslash, so a replacement template is literal text.                *)
(***************************************************************************)

\* The outcomes of process_text that are not a string.
ReError == <<"#re.error">>

Hangs == <<"#hang">>

IsString(s) == s # ReError /\ s # Hangs

re_compiles(pattern) == \A k \in 1..Len(pattern) : pattern[k] # "("

\* The class of characters re.IGNORECASE identifies.
ReFold(c) ==
    CASE c = "A" -> "a"
      [] c = "B" -> "b"
      [] c = "H" -> "h"
      [] c = "J" -> "j"
      [] c = "D" -> "d"
      [] c = "S" -> "s"
      [] c = "Idot" -> "i"
      [] OTHER -> c

AtomMatches(atom, c, ignorecase) ==
    \/ atom = "."
    \/ atom = c
    \/ ignorecase /\ ReFold(atom) = ReFold(c)

ReMatchAt(s, pattern, p, ignorecase) ==
    /\ p + Len(pattern) <= Len(s)
    /\ \A k \in 1..Len(pattern) : AtomMatches(pattern[k], s[p + k], ignorecase)

RECURSIVE ReSubFrom(_, _, _, _, _)
ReSubFrom(s, pattern, repl, p, ignorecase) ==
    IF p >= Len(s) THEN <<>>
    ELSE IF ReMatchAt(s, pattern, p, ignorecase)
         THEN repl \o ReSubFrom(s, pattern, repl, p + Len(pattern), ignorecase)
         ELSE <<s[p + 1]>> \o ReSubFrom(s, pattern, repl, p + 1, ignorecase)

\* re.sub(pattern, repl, s, flags)
re_sub(pattern, repl, s, ignorecase) ==
    IF ~re_compiles(pattern) THEN ReError
    ELSE IF pattern = <<>> THEN Interleave(s, repl)
    ELSE ReSubFrom(s, pattern, repl, 0, ignorecase)

(***************************************************************************)
(* PDFRedactor.process_text                                                *)
(***************************************************************************)

\* The while loop of the case-insensitive literal branch, from the state
\* (new_result, last_pos, pos).  With an empty find_text the loop makes no
\* progress: last_pos = pos and find returns pos again, for ever.
RECURSIVE ci_loop(_, _, _, _, _, _, _, _)
ci_loop(result, result_lower, find_text, find_lower, replace_text, new_result, last_pos, pos) ==
    IF pos = -1 THEN new_result \o SliceFrom(result, last_pos)
    ELSE IF Len(find_text) = 0 THEN Hangs
    ELSE LET new_result2 == new_result \o Slice(result, last_pos, pos) \o replace_text
             last_pos2 == pos + Len(find_text)
         IN  ci_loop(result, result_lower, find_text, find_lower, replace_text,
                     new_result2, last_pos2,
                     str_find(result_lower, find_lower, last_pos2))

\* Lines 73-89.
ci_replace(result, find_text, replace_text) ==
    LET result_lower == lower(result)
        find_lower == lower(find_text)
    IN  ci_loop(result, result_lower, find_text, find_lower, replace_text,
                <<>>, 0, str_find(result_lower, find_lower, 0))

\* An iteration that takes every literal rule as case-insensitive.
apply_rule_anycase(rule, result) ==
    IF rule.regex
    THEN re_sub(rule.find, rule.replace, result, rule.caseInsensitive)
    ELSE ci_replace(result, rule.find, rule.replace)

\* One iteration of the for loop: lines 68-91.
apply_rule(rule, result) ==
    IF rule.regex
    THEN re_sub(rule.find, rule.replace, result, rule.caseInsensitive)
    ELSE IF rule.caseInsensitive
         THEN ci_replace(result, rule.find, rule.replace)
         ELSE str_replace(result, rule.find, rule.replace)

RECURSIVE process_from(_, _, _)
process_from(rules, k, result) ==
    IF k > Len(rules) THEN result
    ELSE LET r == apply_rule(rules[k], result)
         IN  IF IsString(r) THEN process_from(rules, k + 1, r) ELSE r

\* A matcher in which every rule reads the original text.
RECURSIVE process_text_simultaneous(_, _)
process_text_simultaneous(rules, text) ==
    IF rules = <<>> THEN text
    ELSE LET k == Len(rules)
             before == process_text_simultaneous(SubSeq(rules, 1, k - 1), text)
             r == apply_rule(rules[k], text)
         IN  IF ~IsString(before) THEN before
             ELSE IF r # text THEN r ELSE before

\* process_text(text) with self.replacements = rules: the string returned, or
\* ReError when re.sub raises, or Hangs when the call never returns.
process_text(rules, text) == process_from(rules, 1, text)


(***************************************************************************)
(* State.                                                                  *)
(***************************************************************************)
VARIABLES
    \* PDFRedactor fields
    replacements,          \* self.replacements: the rule set, in insertion order
    preserve_compression,  \* self.preserve_compression
    compression_level,     \* self.compression_level
    tools_replacements,    \* self.replacements of a PDFRedactorTools
    ps_content,            \* PDFRedactorTools: the text of the PostScript file
    doc_text,              \* PDFRedactorTools: the text the input document holds
    \* main
    args,                  \* what parser.parse_args() returned
    config,                \* the parsed JSON of the configuration file
    \* a call of process_text on its own
    text,                  \* process_text's argument
    result,                \* process_text's outcome (a string, ReError or Hangs)
    result2,               \* the outcome of process_text on the returned string
    tpc,                   \* "idle" | "ready" | "returned" | "raised" | "hung" | "second"
    \* main and process_directory
    mode,                  \* "single" | "batch" ("none" outside a run)
    pdf_files,             \* number of files to process (1 in single mode)
    file_i,                \* 1-based index of the file being processed
    success_count,
    exit_code,             \* -1 while the process runs
    \* the frame of the current redact_pdf call
    pc,
    uses_compression,      \* pdf_info.get('uses_compression', False)
    temp,                  \* the temporary file: "none" | "empty" | "decompressed" | "copy" | "deleted"
    page_count,            \* len(pdf_document)
    page_num,
    changes_made,
    spans,                 \* the spans of the current page, in extraction order
    to_redact,
    to_insert,
    mark_i,                \* regions marked so far (position in the loop of line 248)
    insert_i,              \* ops inserted so far (position in the loop of line 253)
    success,               \* the value redact_pdf is about to return
    tries,                 \* unlink attempts made (loop of line 308)
    \* the file system and what happened so far
    output,                \* the bytes at output_path for the current file
    io,                    \* document I/O done since the process started
    page_log,              \* what was done to the current page, in order
    insert_failed          \* an insertion of the current call raised

textVars == <<text, result, result2, tpc>>

mainVars == <<compression_level, tools_replacements, ps_content, doc_text, args, config>>

runVars == <<replacements, preserve_compression, mode, pdf_files, mainVars>>

dirVars == <<file_i, success_count, exit_code>>

pageVars == <<spans, to_redact, to_insert, mark_i, insert_i, page_log>>

frameVars ==
    <<pc, uses_compression, temp, page_count, page_num, changes_made,
      success, tries, output, io, insert_failed>>

docVars ==
    <<preserve_compression, mode, pdf_files, mainVars, dirVars, pageVars, frameVars>>

vars == <<replacements, textVars, docVars>>

(***************************************************************************)
(* Bounds and input sets.                                                  *)
(***************************************************************************)
MaxTextLen == 3

MaxRules == 2

MaxFiles == 2

MaxPages == 2

MaxSpans == 2

MaxEntries == 2

MaxPatterns == 2

\* range(5) of the cleanup loop
UnlinkAttempts == 5

RECURSIVE StringsUpTo(_, _)
StringsUpTo(alphabet, n) ==
    IF n = 0 THEN {<<>>}
    ELSE LET shorter == StringsUpTo(alphabet, n - 1)
         IN  shorter \cup {Append(s, c) : s \in shorter, c \in alphabet}

RECURSIVE SeqsUpTo(_, _)
SeqsUpTo(S, n) ==
    IF n = 0 THEN {<<>>}
    ELSE LET shorter == SeqsUpTo(S, n - 1)
         IN  shorter \cup {Append(s, x) : s \in shorter, x \in S}

Rule(f, r, rx, ci) ==
    [find |-> f, replace |-> r, regex |-> rx, caseInsensitive |-> ci]

HelloText ==
    <<"H","e","l","l","o"," ","J","o","h","n"," ","D","o","e"," ",
      "a","n","d"," ","J","a","n","e"," ","S","m","i","t","h">>

JohnDoe == <<"J","o","h","n"," ","D","o","e">>

Redacted == <<"[","R","E","D","A","C","T","E","D","]">>

HelloRedacted ==
    <<"H","e","l","l","o"," ">> \o Redacted \o
    <<" ","a","n","d"," ","J","a","n","e"," ","S","m","i","t","h">>

\* Inputs of the rule-set runs: several rules, texts of three letters.
SetTexts == StringsUpTo({"a", "A", "b"}, MaxTextLen)

SetRules ==
    { Rule(<<"a">>, <<"A", "b">>, FALSE, FALSE),
      Rule(<<"b">>, <<"a", "a">>, FALSE, TRUE),
      Rule(<<"a", "b">>, <<"a">>, FALSE, FALSE),
      Rule(<<"a", "b">>, <<>>, TRUE, FALSE),
      Rule(<<"a", ".">>, <<"x">>, TRUE, TRUE),
      Rule(<<"b">>, <<"x">>, FALSE, FALSE),
      Rule(<<"(">>, <<"x">>, TRUE, FALSE),
      Rule(<<>>, <<"x">>, FALSE, TRUE) }

RuleSets == SeqsUpTo(SetRules, MaxRules) \ {<<>>}

\* Inputs of the single-rule runs: one literal rule, texts that also hold
\* U+0130.
RuleTexts == StringsUpTo({"a", "A", "b", "Idot"}, MaxTextLen)

RuleFinds ==
    { <<>>, <<"a">>, <<"b">>, <<"A">>, <<"a", "b">>, <<"a", "a">>,
      <<"a", "B">>, <<"i">>, <<"Idot">> }

RuleReplaces == { <<>>, <<"x">>, <<"a">>, <<"a", "b">> }

SingleRules ==
    { Rule(f, r, FALSE, ci) : f \in RuleFinds, r \in RuleReplaces, ci \in BOOLEAN }

\* The scenario of spec section 8 and its case-insensitive twin.
ScenarioRules ==
    { Rule(JohnDoe, Redacted, FALSE, FALSE),
      Rule(JohnDoe, Redacted, FALSE, TRUE),
      Rule(<<"J","o","e">>, Redacted, FALSE, FALSE) }

TextInputs ==
    (RuleSets \X SetTexts)
        \cup ({<<r>> : r \in SingleRules} \X RuleTexts)
        \cup ({<<r>> : r \in ScenarioRules} \X {HelloText})

(***************************************************************************)
(* The Text Matcher as a state machine: process_text is called on text;    *)
(* the caller may feed the string it returns to process_text again.        *)
(***************************************************************************)
\* The bytes of a file: the input as it is, or what pdf_document.save wrote.
OriginalBytes == [form |-> "original", deflate |-> FALSE, garbage |-> 0, clean |-> FALSE]

Absent == [form |-> "absent", deflate |-> FALSE, garbage |-> 0, clean |-> FALSE]

\* What an interrupted save leaves at output_path.
PartialBytes == [form |-> "partial", deflate |-> FALSE, garbage |-> 0, clean |-> FALSE]

\* The locals of redact_pdf as a call starts.
FreshFrame ==
    /\ uses_compression = FALSE
    /\ temp = "none"
    /\ page_count = 0
    /\ page_num = 0
    /\ changes_made = FALSE
    /\ spans = <<>>
    /\ to_redact = <<>>
    /\ to_insert = <<>>
    /\ mark_i = 0
    /\ insert_i = 0
    /\ success = FALSE
    /\ tries = 0
    /\ output = Absent
    /\ page_log = <<>>
    /\ insert_failed = FALSE

\* Python's None.
None == <<"#None">>

\* bool(v) of an optional string.
Truthy(v) == v # None /\ v # <<>>

\* The Namespace of a process started without arguments.
NoArgs ==
    [input |-> None, output |-> None, input_dir |-> None, output_dir |-> None,
     find |-> None, replace |-> None, regex |-> FALSE, config |-> None,
     no_compress |-> FALSE, compression_level |-> 9, info |-> FALSE]

\* No configuration file has been read.
NoConfig ==
    [replacements |-> <<>>,
     compression |-> [present |-> FALSE, preserve |-> TRUE, level |-> 9]]

(***************************************************************************)
(* Configuration files.  An entry of "replacements" is the dict json.load  *)
(* returns, with the defaults of rule.get already filled in; its find is a *)
(* JSON string, a JSON array of strings, or something else (a number).     *)
(***************************************************************************)
FindStr(f) == [kind |-> "str", value |-> f]

FindList(fs) == [kind |-> "list", value |-> fs]

FindOther == [kind |-> "other", value |-> <<>>]

Entry(f, r, rx, ci) ==
    [find |-> f, replace |-> r, regex |-> rx, caseInsensitive |-> ci]

\* A redactor that puts each new rule in front of the list.
add_replacement_front(reps, find, replace, is_regex, case_insensitive) ==
    <<Rule(find, replace, is_regex, case_insensitive)>> \o reps

\* Lines 30-37.
add_replacement(reps, find, replace, is_regex, case_insensitive) ==
    Append(reps, Rule(find, replace, is_regex, case_insensitive))

\* A loader that keeps only the first pattern of an entry.
RECURSIVE add_first_pattern(_, _, _, _)
add_first_pattern(reps, find_patterns, rule, k) ==
    IF k > Len(find_patterns) \/ k > 1 THEN reps
    ELSE add_replacement(reps, find_patterns[k], rule.replace, rule.regex,
                         rule.caseInsensitive)

\* Lines 51-57: for pattern in find_patterns, from the k-th on.
RECURSIVE add_patterns(_, _, _, _)
add_patterns(reps, find_patterns, rule, k) ==
    IF k > Len(find_patterns) THEN reps
    ELSE add_patterns(add_replacement(reps, find_patterns[k], rule.replace,
                                      rule.regex, rule.caseInsensitive),
                      find_patterns, rule, k + 1)

\* Lines 44-57: for rule in config.get('replacements', []), from the k-th
\* on; a find that is neither a string nor a list raises ValueError and
\* leaves the rules added so far.
RECURSIVE load_rules(_, _, _)
load_rules(reps, entries, k) ==
    IF k > Len(entries) THEN [replacements |-> reps, raised |-> FALSE]
    ELSE LET rule == entries[k]
         IN  IF rule.find.kind = "str"
             THEN load_rules(add_patterns(reps, <<rule.find.value>>, rule, 1),
                             entries, k + 1)
             ELSE IF rule.find.kind = "list"
             THEN load_rules(add_patterns(reps, rule.find.value, rule, 1),
                             entries, k + 1)
             ELSE [replacements |-> reps, raised |-> TRUE]

\* Lines 39-61: the fields of the PDFRedactor after load_config.
load_config(self, cfg) ==
    LET loaded == load_rules(self.replacements, cfg.replacements, 1)
    IN  IF loaded.raised \/ ~cfg.compression.present
        THEN [replacements |-> loaded.replacements,
              preserve_compression |-> self.preserve_compression,
              compression_level |-> self.compression_level,
              raised |-> loaded.raised]
        ELSE [replacements |-> loaded.replacements,
              preserve_compression |-> cfg.compression.preserve,
              compression_level |-> cfg.compression.level,
              raised |-> FALSE]

\* src/redactor-tools.py lines 54-65: rule['find'] is stored as it is.
tools_load_config(reps, cfg) ==
    reps \o [k \in 1..Len(cfg.replacements) |-> cfg.replacements[k]]

\* The configuration file that holds one single-find entry per rule.
ConfigOf(rules) ==
    [replacements |-> [k \in 1..Len(rules) |->
                          Entry(FindStr(rules[k].find), rules[k].replace,
                                rules[k].regex, rules[k].caseInsensitive)],
     compression |-> [present |-> FALSE, preserve |-> TRUE, level |-> 9]]

\* A command line that starts a run in this mode from a configuration file.
ArgsOf(m, preserve, level) ==
    [input |-> IF m = "single" THEN <<"p">> ELSE None,
     output |-> IF m = "single" THEN <<"p">> ELSE None,
     input_dir |-> IF m = "batch" THEN <<"p">> ELSE None,
     output_dir |-> IF m = "batch" THEN <<"p">> ELSE None,
     find |-> None, replace |-> None, regex |-> FALSE, config |-> <<"p">>,
     no_compress |-> ~preserve, compression_level |-> level, info |-> FALSE]

\* No document is being processed.
NoRun ==
    /\ compression_level = 9
    /\ tools_replacements = <<>>
    /\ ps_content = <<>>
    /\ doc_text = <<>>
    /\ args = NoArgs
    /\ config = NoConfig
    /\ preserve_compression = TRUE
    /\ mode = "none"
    /\ pdf_files = 0
    /\ file_i = 0
    /\ success_count = 0
    /\ exit_code = -1
    /\ pc = "idle"
    /\ io = {}
    /\ FreshFrame

InitText ==
    /\ \E input \in TextInputs :
          /\ replacements = input[1]
          /\ text = input[2]
    /\ result = <<>>
    /\ result2 = <<>>
    /\ tpc = "ready"
    /\ NoRun

\* process_text(text) returns.
ProcessText ==
    /\ tpc = "ready"
    /\ IsString(process_text(replacements, text))
    /\ result' = process_text(replacements, text)
    /\ tpc' = "returned"
    /\ UNCHANGED <<replacements, text, result2, docVars>>

\* process_text(text) raises re.error at a regex rule that does not compile.
ProcessTextRaises ==
    /\ tpc = "ready"
    /\ process_text(replacements, text) = ReError
    /\ result' = ReError
    /\ tpc' = "raised"
    /\ UNCHANGED <<replacements, text, result2, docVars>>

\* process_text(text) never returns.
ProcessTextHangs ==
    /\ tpc = "ready"
    /\ process_text(replacements, text) = Hangs
    /\ result' = Hangs
    /\ tpc' = "hung"
    /\ UNCHANGED <<replacements, text, result2, docVars>>

\* The returned string is processed again with the same rules.
ProcessTextAgain ==
    /\ tpc = "returned"
    /\ result2' = process_text(replacements, result)
    /\ tpc' = "second"
    /\ UNCHANGED <<replacements, text, result, docVars>>

NextText ==
    \/ ProcessText
    \/ ProcessTextRaises
    \/ ProcessTextHangs
    \/ ProcessTextAgain

SpecText == InitText /\ [][NextText]_vars

(***************************************************************************)
(* Loading a configuration file: the same file is given to a fresh         *)
(* PDFRedactorTools and to a fresh PDFRedactor.                            *)
(***************************************************************************)
ConfigFinds ==
    {FindStr(f) : f \in {<<"a">>, <<"b">>}}
        \cup {FindList(fs) : fs \in SeqsUpTo({<<"a">>, <<"b">>}, MaxPatterns)}
        \cup {FindOther}

ConfigEntries ==
    {Entry(f, <<"x">>, FALSE, FALSE) : f \in ConfigFinds}
        \cup {Entry(f, <<>>, TRUE, TRUE) : f \in ConfigFinds}

ConfigCompressions ==
    { [present |-> FALSE, preserve |-> TRUE, level |-> 9],
      [present |-> TRUE, preserve |-> FALSE, level |-> 0] }

Configs ==
    [replacements : SeqsUpTo(ConfigEntries, MaxEntries),
     compression : ConfigCompressions]

\* The fields of the PDFRedactor, as load_config finds them.
Self ==
    [replacements |-> replacements,
     preserve_compression |-> preserve_compression,
     compression_level |-> compression_level]

InitConfig ==
    /\ config \in Configs
    /\ replacements = <<>>
    /\ tools_replacements = <<>>
    /\ ps_content = <<>>
    /\ doc_text = <<>>
    /\ preserve_compression = TRUE
    /\ compression_level = 9
    /\ args = NoArgs
    /\ text = <<>>
    /\ result = <<>>
    /\ result2 = <<>>
    /\ tpc = "idle"
    /\ mode = "none"
    /\ pdf_files = 0
    /\ file_i = 0
    /\ success_count = 0
    /\ exit_code = -1
    /\ pc = "cfg_ready"
    /\ io = {}
    /\ FreshFrame

\* src/redactor-tools.py lines 54-65: PDFRedactorTools.load_config.
LoadConfigTools ==
    /\ pc = "cfg_ready"
    /\ tools_replacements' = tools_load_config(tools_replacements, config)
    /\ pc' = "cfg_tools"
    /\ UNCHANGED <<replacements, preserve_compression, compression_level, args,
                   config, ps_content, doc_text, textVars, mode, pdf_files, dirVars, pageVars,
                   uses_compression, temp, page_count, page_num, changes_made,
                   success, tries, output, io, insert_failed>>

\* Lines 39-61: PDFRedactor.load_config returns.
LoadConfig ==
    /\ pc = "cfg_tools"
    /\ LET loaded == load_config(Self, config)
       IN  /\ ~loaded.raised
           /\ replacements' = loaded.replacements
           /\ preserve_compression' = loaded.preserve_compression
           /\ compression_level' = loaded.compression_level
    /\ pc' = "cfg_loaded"
    /\ UNCHANGED <<tools_replacements, ps_content, doc_text, args, config, textVars, mode,
                   pdf_files,
                   dirVars, pageVars, uses_compression, temp, page_count,
                   page_num, changes_made, success, tries, output, io,
                   insert_failed>>

\* Line 49: PDFRedactor.load_config raises ValueError.
LoadConfigRaises ==
    /\ pc = "cfg_tools"
    /\ LET loaded == load_config(Self, config)
       IN  /\ loaded.raised
           /\ replacements' = loaded.replacements
    /\ pc' = "cfg_raised"
    /\ UNCHANGED <<preserve_compression, compression_level, tools_replacements,
                   ps_content, doc_text, args, config, textVars, mode, pdf_files, dirVars, pageVars,
                   uses_compression, temp, page_count, page_num, changes_made,
                   success, tries, output, io, insert_failed>>

NextConfig ==
    \/ LoadConfigTools
    \/ LoadConfig
    \/ LoadConfigRaises

SpecConfig == InitConfig /\ [][NextConfig]_vars

(***************************************************************************)
(* main (src/redactor.py lines 387-434), from the parsed command line to   *)
(* the call of redact_pdf or process_directory.                            *)
(***************************************************************************)
\* The Namespaces parse_args can return: output is the second positional,
\* given only after input.
ArgSets ==
    { a \in [input : {None, <<"p">>}, output : {None, <<"p">>},
             input_dir : {None, <<"p">>}, output_dir : {None, <<"p">>},
             find : {None, <<>>, <<"a">>}, replace : {None, <<>>, <<"x">>},
             regex : BOOLEAN, config : {None, <<"p">>},
             no_compress : BOOLEAN, compression_level : {0, 9},
             info : BOOLEAN] :
        a.output # None => a.input # None }

\* The configuration files --config may name.
MainConfigs ==
    { [replacements |-> <<Entry(FindList(<< <<"a">>, <<"b">> >>), <<"x">>, FALSE, TRUE)>>,
       compression |-> [present |-> FALSE, preserve |-> TRUE, level |-> 9]],
      [replacements |-> <<Entry(FindStr(<<"b">>), <<>>, TRUE, FALSE)>>,
       compression |-> [present |-> TRUE, preserve |-> FALSE, level |-> 0]],
      [replacements |-> <<Entry(FindStr(<<"a">>), <<"x">>, FALSE, FALSE), Entry(FindOther, <<"x">>, FALSE, FALSE)>>,
       compression |-> [present |-> FALSE, preserve |-> TRUE, level |-> 9]],
      [replacements |-> <<Entry(FindStr(<<"(">>), <<"x">>, TRUE, FALSE)>>,
       compression |-> [present |-> TRUE, preserve |-> TRUE, level |-> 9]],
      [replacements |-> <<Entry(FindStr(<<>>), <<"x">>, FALSE, TRUE)>>,
       compression |-> [present |-> FALSE, preserve |-> TRUE, level |-> 9]] }

\* Lines 410-417: no call of parser.error.
ArgsValid(a) ==
    IF Truthy(a.input_dir) /\ Truthy(a.output_dir)
    THEN Truthy(a.config) \/ (Truthy(a.find) /\ Truthy(a.replace))
    ELSE IF Truthy(a.input) /\ Truthy(a.output)
    THEN Truthy(a.config) \/ (Truthy(a.find) /\ Truthy(a.replace))
    ELSE FALSE

\* What no action of main changes.
mainFrame ==
    <<tools_replacements, ps_content, doc_text, args, textVars, success_count, pageVars,
      uses_compression, temp, page_count, page_num, changes_made, success,
      tries, output, insert_failed>>

InitMain ==
    /\ args \in ArgSets
    /\ replacements = <<>>
    /\ preserve_compression = TRUE
    /\ compression_level = 9
    /\ tools_replacements = <<>>
    /\ ps_content = <<>>
    /\ doc_text = <<>>
    /\ config = NoConfig
    /\ text = <<>>
    /\ result = <<>>
    /\ result2 = <<>>
    /\ tpc = "idle"
    /\ mode = "none"
    /\ pdf_files = 0
    /\ file_i = 0
    /\ success_count = 0
    /\ exit_code = -1
    /\ pc = "main_start"
    /\ io = {}
    /\ FreshFrame

\* Lines 392-408: --info with an input prints what get_pdf_info returns and
\* exits with 0.
ShowInfo ==
    /\ pc = "main_start"
    /\ args.info
    /\ Truthy(args.input)
    /\ io' = io \cup {"open input"}
    /\ exit_code' = 0
    /\ pc' = "exit"
    /\ UNCHANGED <<mainFrame, replacements, preserve_compression,
                   compression_level, config, mode, pdf_files, file_i>>

\* Lines 392-394 and 410-417: parser.error prints the usage and exits with 2.
RejectArgs ==
    /\ pc = "main_start"
    /\ IF args.info THEN ~Truthy(args.input) ELSE ~ArgsValid(args)
    /\ exit_code' = 2
    /\ pc' = "exit"
    /\ UNCHANGED <<mainFrame, replacements, preserve_compression,
                   compression_level, config, mode, pdf_files, file_i, io>>

\* Lines 410-422: the arguments pass; the redactor is built and given the
\* compression options.
BuildRedactor ==
    /\ pc = "main_start"
    /\ ~args.info
    /\ ArgsValid(args)
    /\ preserve_compression' = ~args.no_compress
    /\ compression_level' = args.compression_level
    /\ pc' = "main_config"
    /\ UNCHANGED <<mainFrame, replacements, config, mode, pdf_files, file_i,
                   exit_code, io>>

\* Lines 424-425: load_config returns.
MainLoadConfig ==
    /\ pc = "main_config"
    /\ Truthy(args.config)
    /\ \E cfg \in MainConfigs :
          LET loaded == load_config(Self, cfg)
          IN  /\ ~loaded.raised
              /\ config' = cfg
              /\ replacements' = loaded.replacements
              /\ preserve_compression' = loaded.preserve_compression
              /\ compression_level' = loaded.compression_level
    /\ pc' = "main_find"
    /\ UNCHANGED <<mainFrame, mode, pdf_files, file_i, exit_code, io>>

\* Lines 424-425: load_config raises ValueError, which main does not catch:
\* traceback and exit status 1.
MainLoadConfigRaises ==
    /\ pc = "main_config"
    /\ Truthy(args.config)
    /\ \E cfg \in MainConfigs :
          LET loaded == load_config(Self, cfg)
          IN  /\ loaded.raised
              /\ config' = cfg
              /\ replacements' = loaded.replacements
    /\ exit_code' = 1
    /\ pc' = "exit"
    /\ UNCHANGED <<mainFrame, preserve_compression, compression_level, mode,
                   pdf_files, file_i, io>>

\* Lines 424-428: (no --config, or the configuration is loaded) the
\* --find/--replace pair is added when both are given and non-empty.
MainAddReplacement ==
    /\ \/ pc = "main_find"
       \/ pc = "main_config" /\ ~Truthy(args.config)
    /\ replacements' =
           IF Truthy(args.find) /\ Truthy(args.replace)
           THEN add_replacement(replacements, args.find, args.replace,
                                args.regex, FALSE)
           ELSE replacements
    /\ pc' = "main_dispatch"
    /\ UNCHANGED <<mainFrame, preserve_compression, compression_level, config,
                   mode, pdf_files, file_i, exit_code, io>>

\* Lines 430-431: process_directory is called and lists the directory.
DispatchBatch ==
    /\ pc = "main_dispatch"
    /\ Truthy(args.input_dir) /\ Truthy(args.output_dir)
    /\ mode' = "batch"
    /\ \E n \in 0..MaxFiles : pdf_files' = n
    /\ file_i' = 1
    /\ pc' = "dir_loop"
    /\ UNCHANGED <<mainFrame, replacements, preserve_compression,
                   compression_level, config, exit_code, io>>

\* Lines 432-433: redact_pdf is called on input and output.
DispatchSingle ==
    /\ pc = "main_dispatch"
    /\ ~(Truthy(args.input_dir) /\ Truthy(args.output_dir))
    /\ mode' = "single"
    /\ pdf_files' = 1
    /\ file_i' = 1
    /\ pc' = "rp_check"
    /\ UNCHANGED <<mainFrame, replacements, preserve_compression,
                   compression_level, config, exit_code, io>>

NextMain ==
    \/ ShowInfo
    \/ RejectArgs
    \/ BuildRedactor
    \/ MainLoadConfig
    \/ MainLoadConfigRaises
    \/ MainAddReplacement
    \/ DispatchBatch
    \/ DispatchSingle

SpecMain == InitMain /\ [][NextMain]_vars

(***************************************************************************)
(* A run of main (src/redactor.py) from line 419 on: the rule set has been *)
(* built; redact_pdf is called once (single-file mode) or once per file    *)
(* (process_directory).  A document is read as the code reads it: what     *)
(* is_file, get_pdf_info, fitz.open and page.get_text return is chosen     *)
(* when the call is made.  A page is the sequence of its spans in          *)
(* extraction order (blocks, lines, spans flattened), each with the type   *)
(* of its block.                                                           *)
(***************************************************************************)
SpanTexts == { <<"a">>, <<"b">>, <<" ">> }

Span(btype, t) == [btype |-> btype, text |-> t]

TaggedSpans == {Span(0, t) : t \in SpanTexts} \cup {Span(1, <<"a">>)}

PageContents == SeqsUpTo(TaggedSpans, MaxSpans)

DocRuleSets ==
    { <<Rule(<<"a">>, <<"x">>, FALSE, FALSE)>>,
      <<Rule(<<" ">>, <<"x">>, FALSE, FALSE)>>,
      <<Rule(<<"(">>, <<"x">>, TRUE, FALSE)>>,
      <<Rule(<<>>, <<"x">>, FALSE, TRUE)>> }

Whitespace == {" "}

\* not original_text.strip()
IsBlank(t) == \A k \in 1..Len(t) : t[k] \in Whitespace

\* A scan that looks at the spans of every block.
ExaminedAnyBlock(span) == ~IsBlank(span.text)

\* Lines 227-232: the span is handed to process_text.
Examined(span) == span.btype = 0 /\ ~IsBlank(span.text)

\* Lines 226-246 from span k on: the ops recorded, or the exception.
RECURSIVE ScanSpans(_, _, _, _)
ScanSpans(rules, content, k, ops) ==
    IF k > Len(content) THEN [status |-> "ok", ops |-> ops]
    ELSE IF ~Examined(content[k]) THEN ScanSpans(rules, content, k + 1, ops)
    ELSE LET original_text == content[k].text
             processed_text == process_text(rules, original_text)
         IN  IF processed_text = ReError THEN [status |-> "raised", ops |-> ops]
             ELSE IF processed_text = Hangs THEN [status |-> "hung", ops |-> ops]
             ELSE IF processed_text # original_text
                  THEN ScanSpans(rules, content, k + 1,
                           Append(ops, [bbox |-> k, origin |-> k, text |-> processed_text]))
                  ELSE ScanSpans(rules, content, k + 1, ops)

\* apply_redactions run as soon as one region is marked.
CommitAfterFirstMark == mark_i >= 1 \/ Len(to_redact) = 0

\* Line 251 is reached: the loop of line 248 is over.
MarkLoopDone == mark_i = Len(to_redact)

\* A save that always deflates.
SaveCompressed == [form |-> "resaved", deflate |-> TRUE, garbage |-> 4, clean |-> TRUE]

\* Lines 281-291: the arguments of pdf_document.save.
SaveArguments ==
    IF preserve_compression /\ uses_compression
    THEN [form |-> "resaved", deflate |-> TRUE, garbage |-> 4, clean |-> TRUE]
    ELSE [form |-> "resaved", deflate |-> FALSE, garbage |-> 4, clean |-> TRUE]

InitRun ==
    /\ replacements \in DocRuleSets
    /\ preserve_compression \in BOOLEAN
    /\ compression_level \in {0, 9}
    /\ mode \in {"single", "batch"}
    /\ args = ArgsOf(mode, preserve_compression, compression_level)
    /\ config = ConfigOf(replacements)
    /\ tools_replacements = <<>>
    /\ ps_content = <<>>
    /\ doc_text = <<>>
    /\ pdf_files \in (IF mode = "single" THEN {1} ELSE 0..MaxFiles)
    /\ file_i = 1
    /\ success_count = 0
    /\ exit_code = -1
    /\ pc = IF mode = "single" THEN "rp_check" ELSE "dir_loop"
    /\ io = {}
    /\ FreshFrame
    /\ text = <<>>
    /\ result = <<>>
    /\ result2 = <<>>
    /\ tpc = "idle"

\* Lines 337-342: process_directory calls redact_pdf for the next file.
ProcessDirectoryNext ==
    /\ pc = "dir_loop"
    /\ file_i <= pdf_files
    /\ pc' = "rp_check"
    /\ UNCHANGED <<runVars, textVars, dirVars, pageVars, uses_compression, temp,
                   page_count, page_num, changes_made, success, tries, output,
                   io, insert_failed>>

\* Lines 346-350: the loop is over, the summary is logged, main returns.
ProcessDirectoryDone ==
    /\ pc = "dir_loop"
    /\ file_i > pdf_files
    /\ pc' = "exit"
    /\ exit_code' = 0
    /\ UNCHANGED <<runVars, textVars, file_i, success_count, pageVars,
                   uses_compression, temp, page_count, page_num, changes_made,
                   success, tries, output, io, insert_failed>>

\* Lines 167-169: the input path is not a file: return False.
InputMissing ==
    /\ pc = "rp_check"
    /\ pc' = "rp_return"
    /\ success' = FALSE
    /\ UNCHANGED <<runVars, textVars, dirVars, pageVars, uses_compression, temp,
                   page_count, page_num, changes_made, tries, output, io,
                   insert_failed>>

\* Lines 167-175: the input is a file; get_pdf_info opens it and reports
\* whether it holds a stream (an empty dict, hence False, when it cannot be
\* read); the temporary file is created.
Inspect ==
    /\ pc = "rp_check"
    /\ \E compressed \in BOOLEAN : uses_compression' = compressed
    /\ io' = io \cup {"open input"}
    /\ temp' = "empty"
    /\ pc' = "rp_prepare"
    /\ UNCHANGED <<runVars, textVars, dirVars, pageVars, page_count, page_num,
                   changes_made, success, tries, output, insert_failed>>

\* Lines 179-183: decompress_pdf writes the working copy.
Decompress ==
    /\ pc = "rp_prepare"
    /\ uses_compression
    /\ temp' = "decompressed"
    /\ io' = io \cup {"open input", "write temp"}
    /\ pc' = "rp_open"
    /\ UNCHANGED <<runVars, textVars, dirVars, pageVars, uses_compression,
                   page_count, page_num, changes_made, success, tries, output,
                   insert_failed>>

\* Lines 179-186: the input is copied to the temporary file (no compression
\* detected, or decompress_pdf failed).
CopyToTemp ==
    /\ pc = "rp_prepare"
    /\ temp' = "copy"
    /\ io' = io \cup (IF uses_compression THEN {"open input"} ELSE {})
                \cup {"copy input", "write temp"}
    /\ pc' = "rp_open"
    /\ UNCHANGED <<runVars, textVars, dirVars, pageVars, uses_compression,
                   page_count, page_num, changes_made, success, tries, output,
                   insert_failed>>

\* Lines 188-196: the working copy is opened.
OpenDocument ==
    /\ pc = "rp_open"
    /\ \E n \in 1..MaxPages : page_count' = n
    /\ page_num' = 0
    /\ changes_made' = FALSE
    /\ io' = io \cup {"open temp"}
    /\ pc' = "rp_page"
    /\ UNCHANGED <<runVars, textVars, dirVars, pageVars, uses_compression, temp,
                   success, tries, output, insert_failed>>

\* Line 193: fitz.open raises; the outer finally runs next.
OpenDocumentRaises ==
    /\ pc = "rp_open"
    /\ io' = io \cup {"open temp"}
    /\ success' = FALSE
    /\ pc' = "rp_cleanup"
    /\ UNCHANGED <<runVars, textVars, dirVars, pageVars, uses_compression, temp,
                   page_count, page_num, changes_made, tries, output,
                   insert_failed>>

\* Lines 211-246: the page's spans are read and scanned.
LocateSpans ==
    /\ pc = "rp_page"
    /\ page_num < page_count
    /\ \E content \in PageContents :
          LET scan == ScanSpans(replacements, content, 1, <<>>)
          IN  /\ scan.status = "ok"
              /\ spans' = content
              /\ to_redact' = [i \in 1..Len(scan.ops) |-> scan.ops[i].bbox]
              /\ to_insert' = [i \in 1..Len(scan.ops) |->
                                  [origin |-> scan.ops[i].origin,
                                   text |-> scan.ops[i].text]]
              /\ changes_made' = (changes_made \/ scan.ops # <<>>)
    /\ mark_i' = 0
    /\ insert_i' = 0
    /\ page_log' = <<>>
    /\ pc' = "rp_mark"
    /\ UNCHANGED <<runVars, textVars, dirVars, uses_compression, temp, page_count,
                   page_num, success, tries, output, io, insert_failed>>

\* Line 234: process_text raises re.error; the inner finally runs next.
LocateSpansRaises ==
    /\ pc = "rp_page"
    /\ page_num < page_count
    /\ \E content \in PageContents :
          ScanSpans(replacements, content, 1, <<>>).status = "raised"
    /\ spans' = <<>>
    /\ to_redact' = <<>>
    /\ to_insert' = <<>>
    /\ mark_i' = 0
    /\ insert_i' = 0
    /\ page_log' = <<>>
    /\ success' = FALSE
    /\ pc' = "rp_close"
    /\ UNCHANGED <<runVars, textVars, dirVars, uses_compression, temp, page_count,
                   page_num, changes_made, tries, output, io, insert_failed>>

\* Line 234: process_text never returns.
LocateSpansHangs ==
    /\ pc = "rp_page"
    /\ page_num < page_count
    /\ \E content \in PageContents :
          ScanSpans(replacements, content, 1, <<>>).status = "hung"
    /\ pc' = "hung"
    /\ UNCHANGED <<runVars, textVars, dirVars, pageVars, uses_compression, temp,
                   page_count, page_num, changes_made, success, tries, output,
                   io, insert_failed>>

\* Lines 248-249: page.add_redact_annot(bbox) for the next region.
MarkRegion ==
    /\ pc = "rp_mark"
    /\ mark_i < Len(to_redact)
    /\ mark_i' = mark_i + 1
    /\ page_log' = Append(page_log, "mark")
    /\ UNCHANGED <<runVars, textVars, dirVars, frameVars, spans, to_redact,
                   to_insert, insert_i>>

\* Line 251: page.apply_redactions().
ApplyRedactions ==
    /\ pc = "rp_mark"
    /\ MarkLoopDone
    /\ page_log' = Append(page_log, "commit")
    /\ insert_i' = 0
    /\ pc' = "rp_insert"
    /\ UNCHANGED <<runVars, textVars, dirVars, spans, to_redact, to_insert, mark_i,
                   uses_compression, temp, page_count, page_num, changes_made,
                   success, tries, output, io, insert_failed>>

\* Lines 253-273: the next op's replacement text is drawn, with the embedded
\* font (insert_font, insert_text) or a standard one (insert_text).
InsertText ==
    /\ pc = "rp_insert"
    /\ insert_i < Len(to_insert)
    /\ insert_i' = insert_i + 1
    /\ page_log' = Append(page_log, "insert")
    /\ UNCHANGED <<runVars, textVars, dirVars, frameVars, spans, to_redact,
                   to_insert, mark_i>>

\* Lines 255-273: insert_font or insert_text raises: nothing catches it
\* before line 319; the inner finally runs next.
InsertTextRaises ==
    /\ pc = "rp_insert"
    /\ insert_i < Len(to_insert)
    /\ insert_failed' = TRUE
    /\ success' = FALSE
    /\ pc' = "rp_close"
    /\ UNCHANGED <<runVars, textVars, dirVars, pageVars, uses_compression, temp,
                   page_count, page_num, changes_made, tries, output, io>>

\* Line 210: the page is done, on to the next, which starts with empty
\* lists (lines 223-224).
NextPage ==
    /\ pc = "rp_insert"
    /\ insert_i = Len(to_insert)
    /\ page_num' = page_num + 1
    /\ spans' = <<>>
    /\ to_redact' = <<>>
    /\ to_insert' = <<>>
    /\ mark_i' = 0
    /\ insert_i' = 0
    /\ page_log' = <<>>
    /\ pc' = "rp_page"
    /\ UNCHANGED <<runVars, textVars, dirVars, uses_compression, temp,
                   page_count, changes_made, success, tries, output, io,
                   insert_failed>>

\* Lines 275-299: all pages done; the document is saved to output_path,
\* whatever changes_made is, and True is about to be returned.
SaveDocument ==
    /\ pc = "rp_page"
    /\ page_num = page_count
    /\ output' = SaveArguments
    /\ io' = io \cup {"write output"}
    /\ success' = TRUE
    /\ pc' = "rp_close"
    /\ UNCHANGED <<runVars, textVars, dirVars, pageVars, uses_compression, temp,
                   page_count, page_num, changes_made, tries, insert_failed>>

\* Lines 283-291: pdf_document.save raises, before it has written anything
\* to output_path or after it has written a part of the file.
SaveDocumentRaises ==
    /\ pc = "rp_page"
    /\ page_num = page_count
    /\ \E written \in {output, PartialBytes} : output' = written
    /\ io' = IF output' = output THEN io ELSE io \cup {"write output"}
    /\ success' = FALSE
    /\ pc' = "rp_close"
    /\ UNCHANGED <<runVars, textVars, dirVars, pageVars, uses_compression, temp,
                   page_count, page_num, changes_made, tries, insert_failed>>

\* Lines 301-304: the inner finally closes the document.
CloseDocument ==
    /\ pc = "rp_close"
    /\ pc' = "rp_cleanup"
    /\ UNCHANGED <<runVars, textVars, dirVars, pageVars, uses_compression, temp,
                   page_count, page_num, changes_made, success, tries, output,
                   io, insert_failed>>

\* Lines 307-312: unlink succeeds.
UnlinkTemp ==
    /\ pc = "rp_cleanup"
    /\ tries < UnlinkAttempts
    /\ temp' = "deleted"
    /\ pc' = "rp_return"
    /\ UNCHANGED <<runVars, textVars, dirVars, pageVars, uses_compression,
                   page_count, page_num, changes_made, success, tries, output,
                   io, insert_failed>>

\* Lines 313-315: unlink raises PermissionError; retry after a sleep.
UnlinkTempDenied ==
    /\ pc = "rp_cleanup"
    /\ tries < UnlinkAttempts
    /\ tries' = tries + 1
    /\ UNCHANGED <<runVars, textVars, dirVars, pageVars, pc, uses_compression, temp,
                   page_count, page_num, changes_made, success, output, io,
                   insert_failed>>

\* Lines 316-317: every attempt failed; the file is left behind.
UnlinkTempGiveUp ==
    /\ pc = "rp_cleanup"
    /\ tries = UnlinkAttempts
    /\ pc' = "rp_return"
    /\ UNCHANGED <<runVars, textVars, dirVars, pageVars, uses_compression, temp,
                   page_count, page_num, changes_made, success, tries, output,
                   io, insert_failed>>

\* Lines 307-321: unlink raises an OSError that is not a PermissionError
\* (the file is busy, or gone since the test of line 307): the handler of
\* line 313 does not take it, it replaces the pending return and reaches the
\* except of line 319: return False.
UnlinkTempRaises ==
    /\ pc = "rp_cleanup"
    /\ tries < UnlinkAttempts
    /\ success' = FALSE
    /\ pc' = "rp_return"
    /\ UNCHANGED <<runVars, textVars, dirVars, pageVars, uses_compression, temp,
                   page_count, page_num, changes_made, tries, output, io,
                   insert_failed>>

\* A process that always reports success.
ExitStatusZero(ok) == 0

\* Line 434: 0 if success else 1.
ExitStatus(ok) == IF ok THEN 0 ELSE 1

\* Lines 433-434: redact_pdf has returned to main: sys.exit(0 if success else 1).
ReturnToMain ==
    /\ pc = "rp_return"
    /\ mode = "single"
    /\ exit_code' = ExitStatus(success)
    /\ pc' = "exit"
    /\ UNCHANGED <<runVars, textVars, file_i, success_count, pageVars,
                   uses_compression, temp, page_count, page_num, changes_made,
                   success, tries, output, io, insert_failed>>

\* Lines 342-344: redact_pdf has returned to process_directory; its frame
\* is gone and the next file has its own temporary file and output path.
ReturnToDirectory ==
    /\ pc = "rp_return"
    /\ mode = "batch"
    /\ success_count' = IF success THEN success_count + 1 ELSE success_count
    /\ file_i' = file_i + 1
    /\ pc' = "dir_loop"
    /\ uses_compression' = FALSE
    /\ temp' = "none"
    /\ page_count' = 0
    /\ page_num' = 0
    /\ changes_made' = FALSE
    /\ spans' = <<>>
    /\ to_redact' = <<>>
    /\ to_insert' = <<>>
    /\ mark_i' = 0
    /\ insert_i' = 0
    /\ success' = FALSE
    /\ tries' = 0
    /\ output' = Absent
    /\ page_log' = <<>>
    /\ insert_failed' = FALSE
    /\ UNCHANGED <<runVars, textVars, exit_code, io>>

Next ==
    \/ ProcessDirectoryNext
    \/ ProcessDirectoryDone
    \/ InputMissing
    \/ Inspect
    \/ Decompress
    \/ CopyToTemp
    \/ OpenDocument
    \/ OpenDocumentRaises
    \/ LocateSpans
    \/ LocateSpansRaises
    \/ LocateSpansHangs
    \/ MarkRegion
    \/ ApplyRedactions
    \/ InsertText
    \/ InsertTextRaises
    \/ NextPage
    \/ SaveDocument
    \/ SaveDocumentRaises
    \/ CloseDocument
    \/ UnlinkTemp
    \/ UnlinkTempDenied
    \/ UnlinkTempGiveUp
    \/ UnlinkTempRaises
    \/ ReturnToMain
    \/ ReturnToDirectory

Spec == InitRun /\ [][Next]_vars

(***************************************************************************)
(* The whole program (src/redactor.py): main from the parsed command line  *)
(* to the exit, with the documents it processes.                           *)
(***************************************************************************)
\* The command lines followed to the end: the paths of one mode, with or
\* without a literal --find a --replace x, --config in single-file mode
\* only, and --compression-level 0 with --no-compress.
ProgramArgs ==
    { a \in ArgSets :
        /\ a.input = a.output
        /\ a.input_dir = a.output_dir
        /\ (a.input = None) # (a.input_dir = None)
        /\ a.input_dir # None => a.config = None
        /\ a.find \in {None, <<"a">>}
        /\ a.replace = (IF a.find = None THEN None ELSE <<"x">>)
        /\ ~a.regex
        /\ a.compression_level = (IF a.no_compress THEN 0 ELSE 9) }

InitProgram ==
    /\ InitMain
    /\ args \in ProgramArgs

NextProgram ==
    \/ NextMain
    \/ Next

SpecProgram == InitProgram /\ [][NextProgram]_vars

(***************************************************************************)
(* The external-tool variant (src/redactor-tools.py): main from the rule   *)
(* set on, process_directory and redact_pdf.  The PostScript file holds    *)
(* the text pdftotext extracted; what the tools return is chosen when they *)
(* are called.                                                             *)
(***************************************************************************)
\* Lines 196-204 of process_postscript from rule k on: the new content, or
\* ReError when re.sub raises.
RECURSIVE postscript_from(_, _, _)
postscript_from(rules, k, ps) ==
    IF k > Len(rules) THEN ps
    ELSE LET rule == rules[k]
             new_content == IF rule.regex
                            THEN re_sub(rule.find, rule.replace, ps, FALSE)
                            ELSE str_replace(ps, rule.find, rule.replace)
         IN  IF new_content = ReError THEN ReError
             ELSE postscript_from(rules, k + 1, new_content)

\* What qpdf --linearize wrote.
LinearizedBytes == [form |-> "linearized", deflate |-> TRUE, garbage |-> 0, clean |-> FALSE]

ToolsRuleSets ==
    { <<Rule(<<"a">>, <<"x">>, FALSE, FALSE)>>,
      <<Rule(<<"b">>, <<"x">>, FALSE, TRUE)>>,
      <<Rule(<<"a", ".">>, <<"x">>, TRUE, TRUE)>>,
      <<Rule(<<"(">>, <<"x">>, TRUE, FALSE)>>,
      <<Rule(<<"a">>, <<"b">>, FALSE, FALSE), Rule(<<"b">>, <<"x">>, FALSE, FALSE)>> }

ToolsTexts == StringsUpTo({"a", "B", "b"}, MaxTextLen - 1)

\* What no action of the external-tool variant changes.
toolsFrame ==
    <<replacements, preserve_compression, compression_level, tools_replacements,
      args, config, result2, tpc, mode, pdf_files, pageVars, uses_compression,
      temp, page_count, page_num, changes_made, tries, insert_failed>>

InitTools ==
    /\ replacements \in ToolsRuleSets
    /\ mode \in {"single", "batch"}
    /\ pdf_files \in (IF mode = "single" THEN {1} ELSE 0..MaxFiles)
    /\ args = ArgsOf(mode, TRUE, 9)
    /\ config = ConfigOf(replacements)
    /\ preserve_compression = TRUE
    /\ compression_level = 9
    /\ tools_replacements = <<>>
    /\ ps_content = <<>>
    /\ doc_text = <<>>
    /\ text = <<>>
    /\ result = <<>>
    /\ result2 = <<>>
    /\ tpc = "idle"
    /\ file_i = 1
    /\ success_count = 0
    /\ exit_code = -1
    /\ pc = IF mode = "single" THEN "t_extract" ELSE "t_dir_loop"
    /\ io = {}
    /\ FreshFrame

\* Lines 294-296: process_directory calls redact_pdf for the next file.
ToolsDirectoryNext ==
    /\ pc = "t_dir_loop"
    /\ file_i <= pdf_files
    /\ pc' = "t_extract"
    /\ UNCHANGED <<toolsFrame, text, result, ps_content, doc_text, success, output, io,
                   dirVars>>

\* Line 299: the loop is over, the summary is logged, main returns.
ToolsDirectoryDone ==
    /\ pc = "t_dir_loop"
    /\ file_i > pdf_files
    /\ exit_code' = 0
    /\ pc' = "exit"
    /\ UNCHANGED <<toolsFrame, text, result, ps_content, doc_text, success, output, io,
                   file_i, success_count>>

\* Lines 109-116, 228-229: pdftotext succeeds and extract_text returns its
\* output, the text of the document.
ToolsExtractText ==
    /\ pc = "t_extract"
    /\ \E text_content \in ToolsTexts : doc_text' = text_content
    /\ text' = doc_text'
    /\ io' = io \cup {"open input"}
    /\ pc' = "t_match"
    /\ UNCHANGED <<toolsFrame, result, ps_content, success, output, dirVars>>

\* Lines 117-119, 228-229: pdftotext exits with an error (an encrypted or
\* damaged document): extract_text logs it and returns "".
ToolsExtractTextFails ==
    /\ pc = "t_extract"
    /\ \E text_content \in ToolsTexts : doc_text' = text_content
    /\ text' = <<>>
    /\ io' = io \cup {"open input"}
    /\ pc' = "t_match"
    /\ UNCHANGED <<toolsFrame, result, ps_content, success, output, dirVars>>

\* Lines 230-237: process_text returns; an unchanged text sends the call to
\* the copy.
ToolsProcessText ==
    /\ pc = "t_match"
    /\ IsString(process_text(replacements, text))
    /\ result' = process_text(replacements, text)
    /\ pc' = IF result' = text THEN "t_copy" ELSE "t_decompress"
    /\ UNCHANGED <<toolsFrame, text, ps_content, doc_text, success, output, io, dirVars>>

\* Line 230: process_text raises re.error, which nothing in redact_pdf or
\* process_directory catches.
ToolsProcessTextRaises ==
    /\ pc = "t_match"
    /\ process_text(replacements, text) = ReError
    /\ pc' = "t_raised"
    /\ UNCHANGED <<toolsFrame, text, result, ps_content, doc_text, success, output, io,
                   dirVars>>

\* Lines 232-235: the input is copied to the output path; return True.
ToolsCopy ==
    /\ pc = "t_copy"
    /\ output' = OriginalBytes
    /\ io' = io \cup {"copy input", "write output"}
    /\ success' = TRUE
    /\ pc' = "t_return"
    /\ UNCHANGED <<toolsFrame, text, result, ps_content, doc_text, dirVars>>

\* Line 234: shutil.copy2 raises.
ToolsCopyRaises ==
    /\ pc = "t_copy"
    /\ pc' = "t_raised"
    /\ UNCHANGED <<toolsFrame, text, result, ps_content, doc_text, success, output, io,
                   dirVars>>

\* Lines 238-247: qpdf decompresses (or the original is used) and pdf2ps
\* writes the PostScript file.
ToolsPdfToPs ==
    /\ pc = "t_decompress"
    /\ ps_content' = text
    /\ io' = io \cup {"open input", "write temp"}
    /\ pc' = "t_postscript"
    /\ UNCHANGED <<toolsFrame, text, result, doc_text, success, output, dirVars>>

\* Lines 247-249: pdf2ps fails: return False.
ToolsPdfToPsFails ==
    /\ pc = "t_decompress"
    /\ io' = io \cup {"open input"}
    /\ success' = FALSE
    /\ pc' = "t_return"
    /\ UNCHANGED <<toolsFrame, text, result, ps_content, doc_text, output, dirVars>>

\* Lines 187-214, 252: process_postscript rewrites the PostScript file.
ToolsProcessPostscript ==
    /\ pc = "t_postscript"
    /\ postscript_from(replacements, 1, ps_content) # ReError
    /\ ps_content' = postscript_from(replacements, 1, ps_content)
    /\ pc' = "t_to_pdf"
    /\ UNCHANGED <<toolsFrame, text, result, doc_text, success, output, io, dirVars>>

\* Lines 216-218, 252-254: reading, substituting or writing raises:
\* process_postscript returns False and so does redact_pdf.
ToolsProcessPostscriptFails ==
    /\ pc = "t_postscript"
    /\ success' = FALSE
    /\ pc' = "t_return"
    /\ UNCHANGED <<toolsFrame, text, result, ps_content, doc_text, output, io, dirVars>>

\* Lines 257-258: ps2pdf writes processed.pdf.
ToolsPsToPdf ==
    /\ pc = "t_to_pdf"
    /\ pc' = "t_linearize"
    /\ UNCHANGED <<toolsFrame, text, result, ps_content, doc_text, success, output, io,
                   dirVars>>

\* Lines 258-260: ps2pdf fails: return False.
ToolsPsToPdfFails ==
    /\ pc = "t_to_pdf"
    /\ success' = FALSE
    /\ pc' = "t_return"
    /\ UNCHANGED <<toolsFrame, text, result, ps_content, doc_text, output, io, dirVars>>

\* Lines 263-279: qpdf --linearize writes the output; return True.
ToolsLinearize ==
    /\ pc = "t_linearize"
    /\ output' = LinearizedBytes
    /\ io' = io \cup {"write output"}
    /\ success' = TRUE
    /\ pc' = "t_return"
    /\ UNCHANGED <<toolsFrame, text, result, ps_content, doc_text, dirVars>>

\* Lines 263-267: qpdf exits with an error: check=True raises
\* CalledProcessError, which nothing catches.
ToolsLinearizeRaises ==
    /\ pc = "t_linearize"
    /\ pc' = "t_raised"
    /\ UNCHANGED <<toolsFrame, text, result, ps_content, doc_text, success, output, io,
                   dirVars>>

\* Lines 296-297: redact_pdf has returned to process_directory.
ToolsReturnToDirectory ==
    /\ pc = "t_return"
    /\ mode = "batch"
    /\ success_count' = IF success THEN success_count + 1 ELSE success_count
    /\ file_i' = file_i + 1
    /\ text' = <<>>
    /\ result' = <<>>
    /\ ps_content' = <<>>
    /\ doc_text' = <<>>
    /\ success' = FALSE
    /\ output' = Absent
    /\ pc' = "t_dir_loop"
    /\ UNCHANGED <<toolsFrame, exit_code, io>>

\* Lines 369-370: sys.exit(0 if success else 1).
ToolsReturnToMain ==
    /\ pc = "t_return"
    /\ mode = "single"
    /\ exit_code' = ExitStatus(success)
    /\ pc' = "exit"
    /\ UNCHANGED <<toolsFrame, text, result, ps_content, doc_text, success, output, io,
                   file_i, success_count>>

\* The exception leaves redact_pdf, process_directory and main: the
\* interpreter prints the traceback and exits with status 1.
ToolsUncaught ==
    /\ pc = "t_raised"
    /\ exit_code' = 1
    /\ pc' = "exit"
    /\ UNCHANGED <<toolsFrame, text, result, ps_content, doc_text, success, output, io,
                   file_i, success_count>>

NextTools ==
    \/ ToolsDirectoryNext
    \/ ToolsDirectoryDone
    \/ ToolsExtractText
    \/ ToolsExtractTextFails
    \/ ToolsProcessText
    \/ ToolsProcessTextRaises
    \/ ToolsCopy
    \/ ToolsCopyRaises
    \/ ToolsPdfToPs
    \/ ToolsPdfToPsFails
    \/ ToolsProcessPostscript
    \/ ToolsProcessPostscriptFails
    \/ ToolsPsToPdf
    \/ ToolsPsToPdfFails
    \/ ToolsLinearize
    \/ ToolsLinearizeRaises
    \/ ToolsReturnToDirectory
    \/ ToolsReturnToMain
    \/ ToolsUncaught

SpecTools == InitTools /\ [][NextTools]_vars

(***************************************************************************)
(* Claims about the Text Matcher (checked under SpecText).                 *)
(***************************************************************************)

\* The rule's find pattern has a match somewhere in s, by the rule's own
\* way of matching.
Occurs(rule, s) ==
    IF rule.regex
    THEN /\ re_compiles(rule.find)
         /\ \E p \in 0..Len(s) : ReMatchAt(s, rule.find, p, rule.caseInsensitive)
    ELSE IF rule.caseInsensitive
         THEN \E p \in 0..Len(lower(s)) : MatchAt(lower(s), lower(rule.find), p)
         ELSE \E p \in 0..Len(s) : MatchAt(s, rule.find, p)

\* The leftmost-first, non-overlapping choice among the occurrences Occ of a
\* pattern of length n: no two chosen occurrences overlap, and an occurrence
\* is left out only when it overlaps a chosen one that starts before it.
LeftmostFirst(Occ, n) ==
    CHOOSE M \in SUBSET Occ :
        /\ \A p, q \in M : p < q => p + n <= q
        /\ \A p \in Occ \ M : \E q \in M : q < p /\ p < q + n

\* s with the n characters at each position of M replaced by r, every other
\* character kept.
RECURSIVE Rebuild(_, _, _, _, _)
Rebuild(s, M, n, r, p) ==
    IF p >= Len(s) THEN <<>>
    ELSE IF p \in M THEN r \o Rebuild(s, M, n, r, p + n)
    ELSE <<s[p + 1]>> \o Rebuild(s, M, n, r, p + 1)

OneLiteralRule ==
    /\ Len(replacements) = 1
    /\ ~replacements[1].regex
    /\ replacements[1].find # <<>>

\* C3: process_text applies the rules in the order they were added, each to
\* the output of the one before: the result for r1..rn is rn applied to the
\* result for r1..r(n-1).
C3_SequentialComposition ==
    tpc = "returned" =>
        LET n == Len(replacements)
        IN  result = process_text(<<replacements[n]>>,
                         process_text(SubSeq(replacements, 1, n - 1), text))

\* C3 witness: two rules whose order matters, the second rewriting what the
\* first produced.
C3_Witness ==
    /\ tpc = "returned"
    /\ Len(replacements) = 2
    /\ result # process_text(<<replacements[2], replacements[1]>>, text)
    /\ result # process_text(<<replacements[2]>>, text)
    /\ result # process_text(<<replacements[1]>>, text)

\* C7 as claimed: whenever no replacement string holds a match of any rule's
\* find pattern, processing the processed text again changes nothing.
C7_IdempotentIfNoSelfMatch ==
    (/\ tpc = "second"
     /\ \A i, j \in 1..Len(replacements) :
            ~Occurs(replacements[i], replacements[j].replace))
        => result2 = result

\* C7 amended: whenever the processed text holds no match of any rule's find
\* pattern, processing it again changes nothing.
C7_IdempotentIfNoMatchLeft ==
    (/\ tpc = "second"
     /\ \A i \in 1..Len(replacements) : ~Occurs(replacements[i], result))
        => result2 = result

\* C7 witness: two rules, the first pass changed the text and left no match.
C7_Witness ==
    /\ tpc = "second"
    /\ Len(replacements) = 2
    /\ result # text
    /\ \A i \in 1..Len(replacements) : ~Occurs(replacements[i], result)
    /\ result2 = result

\* C8: a case-insensitive literal rule replaces exactly the leftmost-first
\* non-overlapping occurrences of find, compared case-insensitively, and
\* keeps every other character as it is.
C8_CaseInsensitiveLiteral ==
    (tpc = "returned" /\ OneLiteralRule /\ replacements[1].caseInsensitive) =>
        LET r == replacements[1]
            n == Len(r.find)
            Occ == {p \in 0..(Len(text) - n) :
                        lower(Slice(text, p, p + n)) = lower(r.find)}
        IN  result = Rebuild(text, LeftmostFirst(Occ, n), n, r.replace, 0)

\* C9: for one literal rule with an all-lowercase find and an all-lowercase
\* text, the result does not depend on caseInsensitive.
C9_LowercaseAgrees ==
    (/\ tpc = "returned"
     /\ OneLiteralRule
     /\ lower(replacements[1].find) = replacements[1].find
     /\ lower(text) = text)
        => LET r == replacements[1]
               other == [r EXCEPT !.caseInsensitive = ~r.caseInsensitive]
           IN  result = process_text(<<other>>, text)

\* C9 witness: a case-insensitive rule has replaced an occurrence in a
\* lowercase text and kept the text after it.
C9_Witness ==
    /\ tpc = "returned"
    /\ OneLiteralRule
    /\ replacements[1].caseInsensitive
    /\ replacements[1].find = <<"a">>
    /\ replacements[1].replace = <<"x">>
    /\ text = <<"b", "a", "b">>
    /\ result = <<"b", "x", "b">>

\* C10: a case-sensitive literal rule replaces exactly the leftmost-first
\* non-overlapping occurrences of find and keeps every other character; the
\* scenario text becomes "Hello [REDACTED] and Jane Smith"; a text without
\* an occurrence is returned unchanged.
C10_CaseSensitiveLiteral ==
    (tpc = "returned" /\ OneLiteralRule /\ ~replacements[1].caseInsensitive) =>
        LET r == replacements[1]
            n == Len(r.find)
            Occ == {p \in 0..(Len(text) - n) : Slice(text, p, p + n) = r.find}
        IN  /\ result = Rebuild(text, LeftmostFirst(Occ, n), n, r.replace, 0)
            /\ Occ = {} => result = text
            /\ (text = HelloText /\ r = Rule(JohnDoe, Redacted, FALSE, FALSE))
                   => result = HelloRedacted

\* C10 witness: overlapping occurrences, the leftmost one replaced.
C10_Witness ==
    /\ tpc = "returned"
    /\ replacements = <<Rule(<<"a", "a">>, <<"x">>, FALSE, FALSE)>>
    /\ text = <<"a", "a", "a">>
    /\ result = <<"x", "a">>

(***************************************************************************)
(* Claims about redact_pdf and the run (checked under Spec).               *)
(***************************************************************************)
\* The set of span indices for which the current page has a redaction op.
RedactedSpans == {to_redact[i] : i \in 1..Len(to_redact)}

\* The Text Matcher changes this text.
Changes(t) ==
    LET processed_text == process_text(replacements, t)
    IN  IsString(processed_text) /\ processed_text # t

\* The page's spans have been scanned and its ops recorded.
PageScanned == pc \in {"rp_mark", "rp_insert"}

\* Every op pairs the erase region of a span with the insertion of that
\* span's processed text at that span's origin.
OpsPaired ==
    /\ Len(to_insert) = Len(to_redact)
    /\ \A i \in 1..Len(to_redact) :
          /\ to_redact[i] \in 1..Len(spans)
          /\ to_insert[i].origin = to_redact[i]
          /\ to_insert[i].text = process_text(replacements, spans[to_redact[i]].text)
          /\ \A j \in 1..Len(to_redact) : to_redact[i] = to_redact[j] => i = j

\* C1: when redact_pdf has succeeded on a document in which no span changed,
\* the output file holds the input's bytes: it was copied, not re-saved.
C1_UnchangedDocumentCopied ==
    (pc = "rp_return" /\ success /\ ~changes_made) => output = OriginalBytes

\* C2: when a regex rule's find does not compile, the run fails before any
\* document is opened, copied or written, and no file is processed.
C2_InvalidRegexFailsFast ==
    (\E k \in 1..Len(replacements) :
         replacements[k].regex /\ ~re_compiles(replacements[k].find))
        => (io = {} /\ pc \notin {"rp_prepare", "rp_open", "rp_page", "rp_close"})

\* C4: on every page the calls are mark* commit insert*: the erase is
\* committed once, after every region of the page has been marked, every
\* insertion comes after the commit, and nothing is marked or erased after
\* an insertion.
C4_MarkCommitInsert ==
    LET n == Len(page_log)
        commits == {k \in 1..n : page_log[k] = "commit"}
    IN  /\ Cardinality(commits) <= 1
        /\ \A k \in 1..n :
              /\ page_log[k] = "mark" => \A c \in commits : k < c
              /\ page_log[k] = "insert" => \E c \in commits : c < k
        /\ \A c \in commits :
              /\ c = Len(to_redact) + 1
              /\ n - c <= Len(to_insert)
        /\ (pc = "rp_insert" /\ page_log # <<>>) => commits # {}

\* C4 witness: a page with two ops: both regions marked, then the commit,
\* then both insertions.
C4_Witness ==
    /\ pc = "rp_insert"
    /\ Len(to_redact) = 2
    /\ page_log = <<"mark", "mark", "commit", "insert", "insert">>

\* C5 as claimed: an op is recorded for a span of a text block exactly when
\* the Text Matcher changes the span's text; no op is recorded for a span of
\* another block.
C5_OpIffChanged ==
    PageScanned =>
        /\ OpsPaired
        /\ \A k \in 1..Len(spans) :
              IF spans[k].btype = 0
              THEN (k \in RedactedSpans) <=> Changes(spans[k].text)
              ELSE k \notin RedactedSpans

\* C5 amended: an op is recorded for a span of a text block whose text is
\* not whitespace-only exactly when the Text Matcher changes the span's
\* text; no op is recorded for a whitespace-only span or for a span of
\* another block.
C5_OpIffChangedNonBlank ==
    PageScanned =>
        /\ OpsPaired
        /\ \A k \in 1..Len(spans) :
              IF spans[k].btype = 0 /\ ~IsBlank(spans[k].text)
              THEN (k \in RedactedSpans) <=> Changes(spans[k].text)
              ELSE k \notin RedactedSpans

\* C5 witness: a page with a changed text span, recorded, and a span of an
\* image block holding the same text, not recorded.
C5_Witness ==
    /\ pc = "rp_mark"
    /\ spans = <<Span(1, <<"a">>), Span(0, <<"a">>)>>
    /\ replacements = <<Rule(<<"a">>, <<"x">>, FALSE, FALSE)>>
    /\ to_redact = <<2>>
    /\ to_insert = <<[origin |-> 2, text |-> <<"x">>]>>

\* C6: when an insertion has failed, redact_pdf still saves the document
\* and returns success.
C6_InsertFailureDegrades ==
    (pc = "rp_return" /\ insert_failed) => (success /\ output.form = "resaved")

(***************************************************************************)
(* Claims about load_config (checked under SpecConfig).                    *)
(***************************************************************************)
\* The patterns of an entry of the documented shape, in order.
PatternsOf(entry) ==
    IF entry.find.kind = "str" THEN <<entry.find.value>> ELSE entry.find.value

\* The entries with each array entry written as separate single-find
\* entries, in the same order.
RECURSIVE Separate(_)
Separate(entries) ==
    IF entries = <<>> THEN <<>>
    ELSE LET entry == Head(entries)
             fs == PatternsOf(entry)
         IN  [j \in 1..Len(fs) |-> [entry EXCEPT !.find = FindStr(fs[j])]]
                 \o Separate(Tail(entries))

FreshRedactor ==
    [replacements |-> <<>>, preserve_compression |-> TRUE, compression_level |-> 9]

\* C11: after load_config, an entry whose find is an array of n strings has
\* given exactly n rules, in array order, each with the entry's replace,
\* regex and caseInsensitive, and a string find has given one rule: the rule
\* set, and the result of process_text, are those of the configuration that
\* holds the patterns as separate single-find entries.
C11_ArrayFindExpands ==
    pc = "cfg_loaded" =>
        LET separate == Separate(config.replacements)
            separately == load_config(FreshRedactor,
                                      [config EXCEPT !.replacements = separate])
        IN  /\ Len(replacements) = Len(separate)
            /\ \A k \in 1..Len(separate) :
                  replacements[k] =
                      Rule(separate[k].find.value, separate[k].replace,
                           separate[k].regex, separate[k].caseInsensitive)
            /\ replacements = separately.replacements
            /\ \A t \in {<<"a", "b">>, <<"b", "A">>} :
                  process_text(replacements, t)
                      = process_text(separately.replacements, t)

\* C11 witness: an array of two patterns followed by a string find has
\* given three rules.
C11_Witness ==
    /\ pc = "cfg_loaded"
    /\ config.replacements =
           << Entry(FindList(<< <<"b">>, <<"a">> >>), <<"x">>, FALSE, FALSE),
              Entry(FindStr(<<"a">>), <<>>, TRUE, TRUE) >>
    /\ replacements =
           << Rule(<<"b">>, <<"x">>, FALSE, FALSE),
              Rule(<<"a">>, <<"x">>, FALSE, FALSE),
              Rule(<<"a">>, <<>>, TRUE, TRUE) >>

\* C19: for a configuration of the documented shape, PDFRedactorTools holds
\* the same ordered rule list as PDFRedactor: every rule's find is a string,
\* one rule per array element.
C19_ToolsLoadsSameRules ==
    pc = "cfg_loaded" =>
        /\ Len(tools_replacements) = Len(replacements)
        /\ \A k \in 1..Len(tools_replacements) :
              /\ tools_replacements[k].find.kind = "str"
              /\ tools_replacements[k].find.value = replacements[k].find
              /\ tools_replacements[k].replace = replacements[k].replace
              /\ tools_replacements[k].regex = replacements[k].regex
              /\ tools_replacements[k].caseInsensitive
                     = replacements[k].caseInsensitive

(***************************************************************************)
(* Claims about the save, the exit status and the cleanup (checked under   *)
(* Spec).                                                                  *)
(***************************************************************************)
\* C12: the output is saved with deflate exactly when preserve_compression
\* is true and the input was detected as compressed; garbage collection and
\* clean are requested in both cases.
C12_DeflateIffPreserveAndCompressed ==
    output.form = "resaved" =>
        /\ output.deflate <=> (preserve_compression /\ uses_compression)
        /\ output.garbage = 4
        /\ output.clean

\* C12 witness: a compressed input saved without deflate because
\* preserve_compression is off.
C12_Witness ==
    /\ pc = "rp_return"
    /\ output.form = "resaved"
    /\ uses_compression
    /\ ~preserve_compression
    /\ ~output.deflate
    /\ output.clean

\* C13: the save depends on compression_level: at level 0 the output is
\* written without compression.
C13_LevelZeroNoCompression ==
    (output.form = "resaved" /\ compression_level = 0) => ~output.deflate

\* C15: in single-file mode the process exits with 0 if redact_pdf returned
\* True and with 1 if it returned False.
C15_ExitStatus ==
    (pc = "exit" /\ mode = "single") =>
        /\ exit_code \in {0, 1}
        /\ exit_code = 0 <=> success

\* C15 witness: a run that failed after its last page has exited with 1.
C15_Witness ==
    /\ pc = "exit"
    /\ mode = "single"
    /\ ~success
    /\ page_num = page_count
    /\ page_count >= 1
    /\ exit_code = 1

\* C17: no step of the cleanup changes the value redact_pdf returns.
C17_CleanupNeverFatal ==
    [][pc = "rp_cleanup" => success' = success]_vars

\* C20: the output path holds a file only when the save completed, and
\* redact_pdf returns True exactly when the save completed: a call that
\* returns False has left no output file.
C20_AtomicPerFile ==
    /\ output.form \in {"absent", "resaved"}
    /\ pc = "rp_return" => (success <=> output.form = "resaved")

(***************************************************************************)
(* Claims about the external-tool variant (checked under SpecTools).       *)
(***************************************************************************)
\* C14: a batch run ends only after every file of the directory has been
\* attempted and the summary has been logged, with success_count counting
\* at most the files attempted: no failure of a file stops the loop.
C14_BatchContinuesPastFailures ==
    (mode = "batch" /\ pc = "exit") =>
        /\ file_i = pdf_files + 1
        /\ success_count <= pdf_files
        /\ exit_code = 0

\* C18: the substitution process_postscript makes on a content is the one
\* process_text makes on the same content.
C18_PostscriptUsesTextMatcher ==
    pc = "t_to_pdf" => ps_content = result

(***************************************************************************)
(* Claims about main's argument validation (checked under SpecMain).       *)
(***************************************************************************)
\* The run has passed the validation.
Proceeded ==
    pc \in {"main_config", "main_find", "main_dispatch", "dir_loop", "rp_check"}

SingleChosen == args.input # None /\ args.output # None

BatchChosen == args.input_dir # None /\ args.output_dir # None

\* C16: a run proceeds only if exactly one of the two modes is chosen, with
\* --config or a --find/--replace pair; a rejected command line exits with
\* the parser's status before any rule is loaded or file opened.
C16_ExactlyOneMode ==
    /\ Proceeded =>
          /\ SingleChosen # BatchChosen
          /\ args.config # None \/ (args.find # None /\ args.replace # None)
    /\ (pc = "exit" /\ exit_code = 2) => (replacements = <<>> /\ io = {})

(***************************************************************************)
(* Claims about termination and cleanup.                                   *)
(***************************************************************************)
\* C23 (checked under SpecText): process_text returns or raises for every
\* text and every rule set add_replacement accepts: no call stays in the
\* scan loop of a case-insensitive literal rule for ever.
C23_ProcessTextTerminates ==
    tpc # "hung"

\* C21 (checked under Spec): once the temporary file exists redact_pdf tries
\* to delete it on every exit path, at most UnlinkAttempts times, and it
\* returns with the file left behind only after every attempt failed and
\* the give-up warning of line 317 was logged.
C21_CleanupBoundedAndReported ==
    /\ tries <= UnlinkAttempts
    /\ (pc = "rp_return" /\ temp \notin {"none", "deleted"}) => tries = UnlinkAttempts

(***************************************************************************)
(* Claims about the external-tool variant's text extraction.               *)
(***************************************************************************)
\* C24 (checked under SpecTools): redact_pdf of the external-tool variant
\* returns True with an unmodified copy of the input only when the rule set
\* changes nothing in the text the document holds; a failed extraction never
\* ends as a successful unredacted copy.
C24_CopyOnlyWhenNothingToRedact ==
    (pc = "t_return" /\ success /\ output = OriginalBytes)
        => process_text(replacements, doc_text) = doc_text

(***************************************************************************)
(* Claims about the command line's rule and compression options (checked   *)
(* under SpecMain).                                                        *)
(***************************************************************************)
\* --find and --replace are both on the command line.
PairGiven == args.find # None /\ args.replace # None

\* C26: whenever --find and --replace are both given, the empty --replace
\* included, the pair meets the chosen mode's rule requirement (the command
\* line is not rejected for a missing rule) and the rule set main hands to
\* the processing ends with exactly that rule.
C26_GivenPairIsAppended ==
    (PairGiven /\ ~args.info /\ (SingleChosen \/ BatchChosen)) =>
        /\ ~(pc = "exit" /\ exit_code = 2)
        /\ pc = "main_dispatch" =>
              /\ Len(replacements) > 0
              /\ replacements[Len(replacements)]
                     = Rule(args.find, args.replace, args.regex, FALSE)

(***************************************************************************)
(* Claims about the whole program (checked under SpecProgram).             *)
(***************************************************************************)
\* main is still building the rule set (lines 387-428).
Building == pc \in {"main_start", "main_config", "main_find"}

\* The rules a configuration file stands for: one per pattern, in file
\* order.
RulesOf(entries) ==
    LET separate == Separate(entries)
    IN  [k \in 1..Len(separate) |->
            Rule(separate[k].find.value, separate[k].replace,
                 separate[k].regex, separate[k].caseInsensitive)]

\* The rule main makes of --find and --replace (lines 427-428).
CommandLineRules ==
    IF Truthy(args.find) /\ Truthy(args.replace)
    THEN <<Rule(args.find, args.replace, args.regex, FALSE)>>
    ELSE <<>>

\* C22: the rule set only grows by appending: every step keeps each rule
\* it held, unchanged, at its index; when main hands it to the processing it
\* is the configuration file's rules followed by the command line's rule;
\* and no step changes it once main has finished building it.
C22_AppendOnly ==
    [][ /\ Len(replacements') >= Len(replacements)
        /\ SubSeq(replacements', 1, Len(replacements)) = replacements
        /\ ~Building => replacements' = replacements
        /\ pc' = "main_dispatch" =>
              replacements' = RulesOf(config'.replacements) \o CommandLineRules
      ]_vars

\* C22 witness: a document has been processed with the two rules of a
\* configuration entry followed by the rule of the command line.
C22_Witness ==
    /\ pc = "rp_return"
    /\ success
    /\ output.form = "resaved"
    /\ replacements = << Rule(<<"a">>, <<"x">>, FALSE, TRUE),
                         Rule(<<"b">>, <<"x">>, FALSE, TRUE),
                         Rule(<<"a">>, <<"x">>, FALSE, FALSE) >>

\* C25: with --no-compress the output is saved without compression whatever
\* the configuration file holds, and the documents are processed with the
\* compression level of the command line.
C25_NoCompressWins ==
    /\ (args.no_compress /\ output.form = "resaved") => ~output.deflate
    /\ mode # "none" => compression_level = args.compression_level

=============================================================================
